---- MODULE Spec2Model ----
(***************************************************************************)
(* Model of app.py: the two pydantic models (CompanyFormation,             *)
(* BylawsRequest) with their field constraints and validators, the five    *)
(* PDF generators as sequences of canvas draw operations, and the two POST *)
(* handlers form_company and generate_company_bylaws.                      *)
(*                                                                         *)
(* Representation.  Strings the code inspects character by character       *)
(* (company_name, state_of_formation, fiscal_year_end) are sequences of    *)
(* one-character strings; Str turns such a sequence into the string that   *)
(* is drawn.  Strings the code only compares or copies are TLA+ strings.   *)
(* A request body is a function from the keys that are present (and not    *)
(* None) to their values.                                                  *)
(***************************************************************************)
EXTENDS Integers, Sequences, FiniteSets, TLC

VARIABLES
    pc,         \* "idle": waiting for a request; "done": a response was built
    endpoint,   \* the route of the request being answered
    request,    \* its body: the keys present and their values
    record,     \* the model object the handler built from the body, if any
    raised,     \* the exception raised in the handler's try block, or "none"
    nows,       \* the instants returned by the datetime.now() calls made
    response,   \* the response the handler returned
    clock,      \* the instant the system clock shows to concurrent renders
    calls       \* the render calls in progress, one per thread

vars == <<pc, endpoint, request, record, raised, nows, response, clock, calls>>

---------------------------------------------------------------------------
(* Bounds of the model.                                                    *)

\* longest generated officer_titles list ("Officer 0" .. "Officer n-1")
MaxOfficers == 20
\* longest officer_titles list enumerated over all titles of OfficerPool
MaxTitleSeq == 2
\* number of clock instants a render call can observe
NumInstants == 3
\* largest board_size sent besides the test's 99
MaxBoard == 3

---------------------------------------------------------------------------
(* Characters and str methods.                                             *)

LowerLetters == <<"a","b","c","d","e","f","g","h","i","j","k","l","m",
                  "n","o","p","q","r","s","t","u","v","w","x","y","z">>

UpperLetters == <<"A","B","C","D","E","F","G","H","I","J","K","L","M",
                  "N","O","P","Q","R","S","T","U","V","W","X","Y","Z">>

Digits == {"0","1","2","3","4","5","6","7","8","9"}

\* the ASCII members of the regex class \s
Whitespace == {" ", "\t", "\n", "\r", "\f"}

RangeOf(s) == { s[i] : i \in 1..Len(s) }

\* the string a character sequence stands for
RECURSIVE Str(_)
Str(v) == IF v = <<>> THEN "" ELSE Head(v) \o Str(Tail(v))

upper_char(c) ==
    IF \E i \in 1..26 : LowerLetters[i] = c
    THEN UpperLetters[CHOOSE i \in 1..26 : LowerLetters[i] = c]
    ELSE c

\* str.upper()
upper(v) == [i \in 1..Len(v) |-> upper_char(v[i])]

\* the regex anchor $ as re.match applies it without re.MULTILINE: position n
\* is the end of v, or is just before a newline that is the last character
AtDollar(v, n) ==
    \/ n = Len(v)
    \/ n = Len(v) - 1 /\ v[Len(v)] = "\n"

---------------------------------------------------------------------------
(* Validators declared in class BylawsRequest.                             *)
(* A validator returns [ok, value]: ok = FALSE stands for ValueError.      *)

\* (0[1-9]|1[0-2])
MatchMonth(a, b) ==
    \/ a = "0" /\ b \in Digits \ {"0"}
    \/ a = "1" /\ b \in {"0","1","2"}

\* (0[1-9]|[12][0-9]|3[01])
MatchDay(a, b) ==
    \/ a = "0" /\ b \in Digits \ {"0"}
    \/ a \in {"1","2"} /\ b \in Digits
    \/ a = "3" /\ b \in {"0","1"}

\* re.match(r'^(0[1-9]|1[0-2])-(0[1-9]|[12][0-9]|3[01])$', v)
FiscalRegexMatch(v) ==
    /\ Len(v) >= 5
    /\ MatchMonth(v[1], v[2])
    /\ v[3] = "-"
    /\ MatchDay(v[4], v[5])
    /\ AtDollar(v, 5)

validate_fiscal_year_end(v) ==
    IF ~FiscalRegexMatch(v) THEN [ok |-> FALSE, value |-> v]
    ELSE [ok |-> TRUE, value |-> v]

months == {"January", "February", "March", "April", "May", "June",
           "July", "August", "September", "October", "November", "December"}

validate_annual_meeting_month(v) ==
    IF v \notin months THEN [ok |-> FALSE, value |-> v]
    ELSE [ok |-> TRUE, value |-> v]

\* [a-zA-Z0-9\s,\.\'&]
NameClass == RangeOf(LowerLetters) \cup RangeOf(UpperLetters) \cup Digits
             \cup Whitespace \cup {",", ".", "'", "&"}

\* re.match(r'^[a-zA-Z0-9\s,\.\'&]+$', v)
NameRegexMatch(v) ==
    \E n \in 1..Len(v) :
        /\ \A i \in 1..n : v[i] \in NameClass
        /\ AtDollar(v, n)

validate_company_name(v) ==
    IF ~NameRegexMatch(v) THEN [ok |-> FALSE, value |-> v]
    ELSE [ok |-> TRUE, value |-> v]

states == {
    "AL", "AK", "AZ", "AR", "CA", "CO", "CT", "DE", "FL", "GA",
    "HI", "ID", "IL", "IN", "IA", "KS", "KY", "LA", "ME", "MD",
    "MA", "MI", "MN", "MS", "MO", "MT", "NE", "NV", "NH", "NJ",
    "NM", "NY", "NC", "ND", "OH", "OK", "OR", "PA", "RI", "SC",
    "SD", "TN", "TX", "UT", "VT", "VA", "WA", "WV", "WI", "WY",
    "DC", "PR", "GU", "VI", "AS", "MP" }

validate_state(v) ==
    IF Str(upper(v)) \notin states THEN [ok |-> FALSE, value |-> v]
    ELSE [ok |-> TRUE, value |-> upper(v)]

\* the validator the decorator @validator(field) attaches to a field
ValidatorFor(field, v) ==
    CASE field = "fiscal_year_end"      -> validate_fiscal_year_end(v)
      [] field = "annual_meeting_month" -> validate_annual_meeting_month(v)
      [] field = "company_name"         -> validate_company_name(v)
      [] field = "state_of_formation"   -> validate_state(v)
      [] OTHER                          -> [ok |-> TRUE, value |-> v]

---------------------------------------------------------------------------
(* The pydantic models.  A constructor returns [ok, errors, value]:        *)
(* ok = FALSE stands for pydantic's ValidationError, errors is the set of  *)
(* fields it names, value is the record built when ok.                     *)

CompanyFormationFields ==
    {"company_name", "state_of_formation", "company_type", "incorporator_name"}

\* the fields of CompanyFormation that carry a @validator: the class body
\* declares none
CompanyFormationValidators == {}

\* the declared type of a CompanyFormation field: str accepts every string,
\* Literal["corporation", "LLC"] only its two members
CompanyFormationType(field, v) ==
    IF field = "company_type" THEN v \in {"corporation", "LLC"} ELSE TRUE

CompanyFormation(data) ==
    LET bad == { f \in CompanyFormationFields :
                    \/ f \notin DOMAIN data
                    \/ ~CompanyFormationType(f, data[f])
                    \/ /\ f \in CompanyFormationValidators
                       /\ ~ValidatorFor(f, data[f]).ok }
    IN  IF bad # {}
        THEN [ok |-> FALSE, errors |-> bad, value |-> <<>>]
        ELSE [ok |-> TRUE, errors |-> {},
              value |-> [f \in CompanyFormationFields |->
                            IF f \in CompanyFormationValidators
                            THEN ValidatorFor(f, data[f]).value
                            ELSE data[f]]]

BylawsRequestFields ==
    {"company_name", "principal_office", "fiscal_year_end", "board_size",
     "officer_titles", "annual_meeting_month", "quorum_percentage"}

\* the fields named by the @validator decorators in the body of BylawsRequest
BylawsRequestDecorated ==
    {"fiscal_year_end", "annual_meeting_month", "company_name",
     "state_of_formation"}

\* a validator runs on a field of its own class only: validate_state names
\* state_of_formation, which BylawsRequest does not have, so it runs on no
\* record of either class.  (pydantic's default check_fields refuses such a
\* declaration when the class is created; the model describes the classes
\* as declared, with the stray decorator attached to nothing.)
BylawsRequestValidators == BylawsRequestDecorated \cap BylawsRequestFields

\* BylawsRequestType with lt=100 in place of le=100
BylawsRequestType_Lt(field, v) ==
    CASE field = "board_size"        -> v >= 1
      [] field = "quorum_percentage" -> v >= 0 /\ v < 100
      [] OTHER                       -> TRUE

\* Field(..., ge=1) and Field(..., ge=0, le=100)
BylawsRequestType(field, v) ==
    CASE field = "board_size"        -> v >= 1
      [] field = "quorum_percentage" -> v >= 0 /\ v <= 100
      [] OTHER                       -> TRUE

BylawsRequest(data) ==
    LET bad == { f \in BylawsRequestFields :
                    \/ f \notin DOMAIN data
                    \/ ~BylawsRequestType(f, data[f])
                    \/ /\ f \in BylawsRequestValidators
                       /\ ~ValidatorFor(f, data[f]).ok }
    IN  IF bad # {}
        THEN [ok |-> FALSE, errors |-> bad, value |-> <<>>]
        ELSE [ok |-> TRUE, errors |-> {},
              value |-> [f \in BylawsRequestFields |->
                            IF f \in BylawsRequestValidators
                            THEN ValidatorFor(f, data[f]).value
                            ELSE data[f]]]

---------------------------------------------------------------------------
(* The clock and strftime.                                                 *)

MonthNames == <<"January", "February", "March", "April", "May", "June",
                "July", "August", "September", "October", "November",
                "December">>

\* the i-th instant datetime.now() can return: 30 and 31 December 2026, then
\* the days of January 2027
Instant(i) ==
    IF i <= 2 THEN [day |-> 29 + i, month |-> 12, year |-> 2026]
    ELSE [day |-> i - 2, month |-> 1, year |-> 2027]

\* strftime('%d')
strftime_d(now) ==
    IF now.day < 10 THEN "0" \o ToString(now.day) ELSE ToString(now.day)

\* strftime('%B, %Y')
strftime_B_Y(now) == MonthNames[now.month] \o ", " \o ToString(now.year)

---------------------------------------------------------------------------
(* The canvas: a document is the sequence of text draws made on it.        *)

HelveticaBold16 == [name |-> "Helvetica-Bold", size |-> 16]
HelveticaBold14 == [name |-> "Helvetica-Bold", size |-> 14]
Helvetica12 == [name |-> "Helvetica", size |-> 12]

\* c.drawString(x, y, text) under the font of the last c.setFont
drawString(x, y, text, font) ==
    [op |-> "drawString", x |-> x, y |-> y, text |-> text, font |-> font]

\* c.drawCentredString(x, y, text): text centred on x
drawCentredString(x, y, text, font) ==
    [op |-> "drawCentredString", x |-> x, y |-> y, text |-> text, font |-> font]

\* pagesize=letter
letter == [width |-> 612, height |-> 792]

---------------------------------------------------------------------------
(* The generators.  now1 and now2 are the values of the first and the      *)
(* second datetime.now() call of one render.                               *)

\* generate_delaware_articles with the company name upper-cased, as the bylaws
\* title is
generate_delaware_articles_Upper(company_data, now1, now2) == <<
    drawCentredString(300, 750, "CERTIFICATE OF INCORPORATION", HelveticaBold16),
    drawString(50, 700, "FIRST: The name of this corporation is:", Helvetica12),
    drawString(70, 680, Str(upper(company_data.company_name)), Helvetica12),
    drawString(50, 630, "SECOND: Its registered office in the State of Delaware is located at:", Helvetica12),
    drawString(70, 610, "251 Little Falls Drive, Wilmington, New Castle County, Delaware 19808", Helvetica12),
    drawString(50, 560, "THIRD: The purpose of the corporation is to engage in any lawful act or activity for", Helvetica12),
    drawString(50, 540, "which corporations may be organized under the General Corporation Law of Delaware.", Helvetica12),
    drawString(50, 490, "FOURTH: The total number of shares of stock which this corporation is authorized", Helvetica12),
    drawString(50, 470, "to issue is 1,000 shares of Common Stock with $0.01 par value per share.", Helvetica12),
    drawString(50, 200, "IN WITNESS WHEREOF, the undersigned, being the incorporator hereinbefore named,", Helvetica12),
    drawString(50, 180, "has executed this Certificate of Incorporation this " \o strftime_d(now1) \o " day of", Helvetica12),
    drawString(50, 160, strftime_B_Y(now2) \o ".", Helvetica12),
    drawString(50, 100, "Incorporator:", Helvetica12),
    drawString(70, 80, company_data.incorporator_name, Helvetica12) >>

generate_delaware_articles(company_data, now1, now2) == <<
    drawCentredString(300, 750, "CERTIFICATE OF INCORPORATION", HelveticaBold16),
    drawString(50, 700, "FIRST: The name of this corporation is:", Helvetica12),
    drawString(70, 680, Str(company_data.company_name), Helvetica12),
    drawString(50, 630, "SECOND: Its registered office in the State of Delaware is located at:", Helvetica12),
    drawString(70, 610, "251 Little Falls Drive, Wilmington, New Castle County, Delaware 19808", Helvetica12),
    drawString(50, 560, "THIRD: The purpose of the corporation is to engage in any lawful act or activity for", Helvetica12),
    drawString(50, 540, "which corporations may be organized under the General Corporation Law of Delaware.", Helvetica12),
    drawString(50, 490, "FOURTH: The total number of shares of stock which this corporation is authorized", Helvetica12),
    drawString(50, 470, "to issue is 1,000 shares of Common Stock with $0.01 par value per share.", Helvetica12),
    drawString(50, 200, "IN WITNESS WHEREOF, the undersigned, being the incorporator hereinbefore named,", Helvetica12),
    drawString(50, 180, "has executed this Certificate of Incorporation this " \o strftime_d(now1) \o " day of", Helvetica12),
    drawString(50, 160, strftime_B_Y(now2) \o ".", Helvetica12),
    drawString(50, 100, "Incorporator:", Helvetica12),
    drawString(70, 80, company_data.incorporator_name, Helvetica12) >>

generate_delaware_llc_certificate(company_data, now1, now2) == <<
    drawCentredString(300, 750, "CERTIFICATE OF FORMATION", HelveticaBold16),
    drawString(50, 700, "FIRST: The name of the limited liability company is:", Helvetica12),
    drawString(70, 680, Str(company_data.company_name), Helvetica12),
    drawString(50, 630, "SECOND: The address of its registered office in the State of Delaware is:", Helvetica12),
    drawString(70, 610, "251 Little Falls Drive, Wilmington, New Castle County, Delaware 19808", Helvetica12),
    drawString(50, 560, "THIRD: The name and address of its registered agent in the State of Delaware is:", Helvetica12),
    drawString(70, 540, "Corporation Service Company", Helvetica12),
    drawString(70, 520, "251 Little Falls Drive", Helvetica12),
    drawString(70, 500, "Wilmington, DE 19808", Helvetica12),
    drawString(50, 450, "FOURTH: The limited liability company shall be managed by its members.", Helvetica12),
    drawString(50, 200, "IN WITNESS WHEREOF, the undersigned has executed this Certificate of Formation this " \o strftime_d(now1) \o " day of", Helvetica12),
    drawString(50, 180, strftime_B_Y(now2) \o ".", Helvetica12),
    drawString(50, 100, "Authorized Person:", Helvetica12),
    drawString(70, 80, company_data.incorporator_name, Helvetica12) >>

generate_california_articles(company_data, now1, now2) == <<
    drawCentredString(300, 750, "ARTICLES OF INCORPORATION", HelveticaBold16),
    drawString(50, 700, "ARTICLE I: The name of this corporation is:", Helvetica12),
    drawString(70, 680, Str(company_data.company_name), Helvetica12),
    drawString(50, 630, "ARTICLE II: The purpose of the corporation is to engage in any lawful act or activity", Helvetica12),
    drawString(50, 610, "for which a corporation may be organized under the General Corporation Law of California.", Helvetica12),
    drawString(50, 560, "ARTICLE III: The name and address in California of the corporation's initial agent for service of process is:", Helvetica12),
    drawString(70, 540, "California Registered Agent, Inc.", Helvetica12),
    drawString(70, 520, "123 Main Street", Helvetica12),
    drawString(70, 500, "Los Angeles, CA 90001", Helvetica12),
    drawString(50, 200, "IN WITNESS WHEREOF, the undersigned, being the incorporator hereinbefore named,", Helvetica12),
    drawString(50, 180, "has executed these Articles of Incorporation this " \o strftime_d(now1) \o " day of", Helvetica12),
    drawString(50, 160, strftime_B_Y(now2) \o ".", Helvetica12),
    drawString(50, 100, "Incorporator:", Helvetica12),
    drawString(70, 80, company_data.incorporator_name, Helvetica12) >>

generate_california_llc_certificate(company_data, now1, now2) == <<
    drawCentredString(300, 750, "ARTICLES OF ORGANIZATION", HelveticaBold16),
    drawString(50, 700, "ARTICLE I: The name of the limited liability company is:", Helvetica12),
    drawString(70, 680, Str(company_data.company_name), Helvetica12),
    drawString(50, 630, "ARTICLE II: The purpose of the limited liability company is to engage in any lawful business.", Helvetica12),
    drawString(50, 560, "ARTICLE III: The name and address in California of the LLC's initial agent for service of process is:", Helvetica12),
    drawString(70, 540, "California Registered Agent, Inc.", Helvetica12),
    drawString(70, 520, "123 Main Street", Helvetica12),
    drawString(70, 500, "Los Angeles, CA 90001", Helvetica12),
    drawString(50, 200, "IN WITNESS WHEREOF, the undersigned has executed these Articles of Organization this " \o strftime_d(now1) \o " day of", Helvetica12),
    drawString(50, 180, strftime_B_Y(now2) \o ".", Helvetica12),
    drawString(50, 100, "Authorized Person:", Helvetica12),
    drawString(70, 80, company_data.incorporator_name, Helvetica12) >>

\* OfficerLoop with a page break: below y = 40 it calls c.showPage() and
\* continues from the top of a new page
RECURSIVE OfficerLoop_Paged(_, _)
OfficerLoop_Paged(titles, y) ==
    IF titles = <<>> THEN [draws |-> <<>>, y |-> y]
    ELSE IF y < 40
    THEN LET rest == OfficerLoop_Paged(titles, 750)
         IN  [draws |-> <<[op |-> "showPage", x |-> 0, y |-> 0, text |-> "",
                           font |-> Helvetica12]>> \o rest.draws,
              y |-> rest.y]
    ELSE LET rest == OfficerLoop_Paged(Tail(titles), y - 20)
         IN  [draws |-> <<drawString(70, y, "- " \o Head(titles), Helvetica12)>>
                        \o rest.draws,
              y |-> rest.y]

\* the loop "for title in officer_titles": the draws made from cursor y on and
\* the value of y when the loop ends
RECURSIVE OfficerLoop(_, _)
OfficerLoop(titles, y) ==
    IF titles = <<>> THEN [draws |-> <<>>, y |-> y]
    ELSE LET rest == OfficerLoop(Tail(titles), y - 20)
         IN  [draws |-> <<drawString(70, y, "- " \o Head(titles), Helvetica12)>>
                        \o rest.draws,
              y |-> rest.y]

\* the draws of ARTICLE I to ARTICLE IV up to the officer list
BylawsHead(bylaws_data) == <<
    drawCentredString(300, 750, "CORPORATE BYLAWS OF", HelveticaBold16),
    drawCentredString(300, 730, Str(upper(bylaws_data.company_name)), HelveticaBold16),
    drawString(50, 680, "ARTICLE I - OFFICES", HelveticaBold14),
    drawString(50, 660, "The principal office of the corporation shall be located at:", Helvetica12),
    drawString(70, 640, bylaws_data.principal_office, Helvetica12),
    drawString(50, 600, "ARTICLE II - SHAREHOLDERS MEETINGS", HelveticaBold14),
    drawString(50, 580, "1. Annual Meeting. The annual meeting of shareholders shall be held in", Helvetica12),
    drawString(70, 560, bylaws_data.annual_meeting_month \o " of each year.", Helvetica12),
    drawString(50, 540, "2. Quorum. " \o ToString(bylaws_data.quorum_percentage) \o "% of the outstanding shares shall constitute", Helvetica12),
    drawString(70, 520, "a quorum for the transaction of business.", Helvetica12),
    drawString(50, 480, "ARTICLE III - BOARD OF DIRECTORS", HelveticaBold14),
    drawString(50, 460, "1. Number. The Board of Directors shall consist of " \o ToString(bylaws_data.board_size), Helvetica12),
    drawString(70, 440, "director(s).", Helvetica12),
    drawString(50, 400, "ARTICLE IV - OFFICERS", HelveticaBold14),
    drawString(50, 380, "1. Officers. The officers of the corporation shall be:", Helvetica12) >>

\* ArticleV at fixed coordinates, as if the officer list always had three lines
ArticleV_Fixed(bylaws_data, y) == <<
    drawString(50, 280, "ARTICLE V - FISCAL YEAR", HelveticaBold14),
    drawString(50, 260, "The fiscal year of the corporation shall end on " \o Str(bylaws_data.fiscal_year_end), Helvetica12),
    drawString(50, 240, "of each year.", Helvetica12) >>

\* the draws of ARTICLE V, placed from the cursor y the officer loop left
ArticleV(bylaws_data, y) == <<
    drawString(50, y - 20, "ARTICLE V - FISCAL YEAR", HelveticaBold14),
    drawString(50, y - 40, "The fiscal year of the corporation shall end on " \o Str(bylaws_data.fiscal_year_end), Helvetica12),
    drawString(50, y - 60, "of each year.", Helvetica12) >>

\* generate_bylaws with the company name centred on the page midpoint
generate_bylaws_Midpoint(bylaws_data) ==
    LET loop == OfficerLoop(bylaws_data.officer_titles, 360)
        pdf == BylawsHead(bylaws_data) \o loop.draws \o ArticleV(bylaws_data, loop.y)
    IN  [pdf EXCEPT ![2].x = 306]

generate_bylaws(bylaws_data) ==
    LET loop == OfficerLoop(bylaws_data.officer_titles, 360)
    IN  BylawsHead(bylaws_data) \o loop.draws \o ArticleV(bylaws_data, loop.y)

---------------------------------------------------------------------------
(* Responses.  error is the text of the JSON "error" member, invalid the   *)
(* fields a ValidationError names, detail the exception texts the body     *)
(* exposes, pdf the draws of the attached document, generator the          *)
(* generator that was called.                                              *)

NoResponse ==
    [status |-> 0, mimetype |-> "", error |-> "", invalid |-> {},
     detail |-> {}, pdf |-> <<>>, generator |-> "", download_name |-> ""]

\* jsonify({"error": error}), status
jsonify(status, error, invalid, detail) ==
    [NoResponse EXCEPT !.status = status, !.mimetype = "application/json",
                       !.error = error, !.invalid = invalid, !.detail = detail]

\* send_file(pdf_buffer, mimetype='application/pdf', download_name=...)
send_file(pdf, generator, download_name) ==
    [NoResponse EXCEPT !.status = 200, !.mimetype = "application/pdf",
                       !.pdf = pdf, !.generator = generator,
                       !.download_name = download_name]

\* str(e) of a pydantic ValidationError; the fields it lists are in invalid
ValidationErrorText == "validation error"

\* str(e) of an exception raised by the canvas or by send_file
RenderErrorText == "UnicodeEncodeError: 'utf-8' codec can't encode character"

NameErrorText == "NameError: name 'ValidationError' is not defined"

\* the names the import statements of app.py bind at module level
ModuleNames ==
    {"Flask", "request", "jsonify", "send_file", "BaseModel", "Field",
     "validator", "Literal", "List", "re", "BytesIO", "canvas", "letter",
     "datetime", "os"}

\* Flask's answer to an exception that leaves a view function: status 500 and
\* an HTML page, which shows the traceback when the app runs with debug=True
UnhandledException(debug, texts) ==
    [NoResponse EXCEPT !.status = 500, !.mimetype = "text/html",
                       !.error = "Internal Server Error",
                       !.detail = IF debug THEN texts ELSE {}]

---------------------------------------------------------------------------
(* POST /form-company                                                      *)

\* SelectGenerator with the Delaware LLC branch calling the corporation
\* generator
SelectGenerator_SameDelaware(company_data) ==
    IF Str(company_data.state_of_formation) = "DE"
    THEN IF company_data.company_type \in {"corporation", "LLC"}
         THEN "generate_delaware_articles"
         ELSE "unsupported_type"
    ELSE IF Str(company_data.state_of_formation) = "CA"
    THEN IF company_data.company_type = "corporation"
         THEN "generate_california_articles"
         ELSE IF company_data.company_type = "LLC"
         THEN "generate_california_llc_certificate"
         ELSE "unsupported_type"
    ELSE "unsupported_jurisdiction"

\* the if/elif chain of form_company: the generator it calls, or the branch
\* that returns an error
SelectGenerator(company_data) ==
    IF Str(company_data.state_of_formation) = "DE"
    THEN IF company_data.company_type = "corporation"
         THEN "generate_delaware_articles"
         ELSE IF company_data.company_type = "LLC"
         THEN "generate_delaware_llc_certificate"
         ELSE "unsupported_type"
    ELSE IF Str(company_data.state_of_formation) = "CA"
    THEN IF company_data.company_type = "corporation"
         THEN "generate_california_articles"
         ELSE IF company_data.company_type = "LLC"
         THEN "generate_california_llc_certificate"
         ELSE "unsupported_type"
    ELSE "unsupported_jurisdiction"

Generators ==
    {"generate_delaware_articles", "generate_delaware_llc_certificate",
     "generate_california_articles", "generate_california_llc_certificate"}

CallGenerator(generator, company_data, now1, now2) ==
    CASE generator = "generate_delaware_articles" ->
            generate_delaware_articles(company_data, now1, now2)
      [] generator = "generate_delaware_llc_certificate" ->
            generate_delaware_llc_certificate(company_data, now1, now2)
      [] generator = "generate_california_articles" ->
            generate_california_articles(company_data, now1, now2)
      [] generator = "generate_california_llc_certificate" ->
            generate_california_llc_certificate(company_data, now1, now2)

\* the position, among the draws of a formation generator, of the line whose
\* text holds the first datetime.now() (the day of the month)
DayLine(generator) ==
    IF generator = "generate_california_llc_certificate" THEN 9 ELSE 11

\* the position of the line whose text holds the second datetime.now() (the
\* month name and the year)
MonthLine(generator) == DayLine(generator) + 1

\* c.save(): the number of pages of the document, one more than the number
\* of c.showPage() calls made before it
PageCount(pdf) == 1 + Cardinality({ i \in 1..Len(pdf) : pdf[i].op = "showPage" })

\* the clause "except Exception as e" of form_company
FormCompanyExcept(text, invalid, detail) == jsonify(400, text, invalid, detail)

\* the body of form_company.  fails: the generator or send_file raises.
form_company(data, fails, now1, now2) ==
    LET model == CompanyFormation(data)
        company_data == model.value
        generator == SelectGenerator(company_data)
    IN  IF ~model.ok
        THEN FormCompanyExcept(ValidationErrorText, model.errors, {})
        ELSE IF generator = "unsupported_type"
        THEN jsonify(400, "Unsupported company type", {}, {})
        ELSE IF generator = "unsupported_jurisdiction"
        THEN jsonify(400, "Only Delaware and California entities are supported at this time", {}, {})
        ELSE IF fails
        THEN FormCompanyExcept(RenderErrorText, {}, {RenderErrorText})
        ELSE send_file(CallGenerator(generator, company_data, now1, now2),
                       generator,
                       Str(company_data.company_name) \o "_certificate.pdf")

---------------------------------------------------------------------------
(* POST /generate-bylaws                                                   *)

\* str.replace(' ', '_')
replace_space(v) == [i \in 1..Len(v) |-> IF v[i] = " " THEN "_" ELSE v[i]]

\* what happens to an exception raised in the try block of
\* generate_company_bylaws.  Matching it against the first clause evaluates
\* the name ValidationError; when the module does not bind that name the
\* lookup raises NameError, which leaves the view function.
GenerateBylawsExcept(exc, text, invalid, debug) ==
    IF "ValidationError" \notin ModuleNames
    THEN UnhandledException(debug, {text, NameErrorText})
    ELSE IF exc = "ValidationError"
    THEN jsonify(400, text, invalid, {})
    ELSE jsonify(500, "An unexpected error occurred", {}, {})

generate_company_bylaws(data, fails, debug) ==
    LET model == BylawsRequest(data)
        bylaws_data == model.value
    IN  IF ~model.ok
        THEN GenerateBylawsExcept("ValidationError", ValidationErrorText,
                                  model.errors, debug)
        ELSE IF fails
        THEN GenerateBylawsExcept("Exception", RenderErrorText, {}, debug)
        ELSE send_file(generate_bylaws(bylaws_data), "generate_bylaws",
                       Str(replace_space(bylaws_data.company_name)) \o "_bylaws.pdf")

---------------------------------------------------------------------------
(* Request bodies.                                                         *)

Letters == RangeOf(LowerLetters) \cup RangeOf(UpperLetters)

\* every valid code in every letter case, and codes outside the set
StateInputs ==
    { v \in Letters \X Letters : Str(upper(v)) \in states }
    \cup { <<"X","X">>, <<"x","x">>, <<"D","E"," ">>, <<"D">>, <<>> }

NameInputs ==
    { <<"A","c","m","e"," ","C","o","r","p",","," ","I","n","c",".">>,
      <<"S","m","i","t","h"," ","&"," ","S","o","n","'","s"," ","9">>,
      <<"A","c","m","e","/","C","o","r","p">>,
      <<"A","c","m","e","_","C","o","r","p">>,
      <<"A","c","m","e","\n">>,
      <<>> }

TypeInputs == {"corporation", "LLC", "llc", "partnership"}

IncorporatorInputs == {"John Smith", ""}

\* a body with the keys of present, built from a total assignment
Restrict(f, present) == [k \in present |-> f[k]]

\* bodies of POST /form-company: every combination of the values above, with
\* at most one key missing (or None, in a form-encoded body)
FormInputs ==
    { Restrict(f, CompanyFormationFields \ drop) :
        f \in [company_name : NameInputs, state_of_formation : StateInputs,
               company_type : TypeInputs, incorporator_name : IncorporatorInputs],
        drop \in {{}} \cup {{k} : k \in CompanyFormationFields} }

\* every string dd-dd with a month part 00..29 and a day part 00..49
FiscalGrid ==
    { <<a, b, "-", c, d>> : a \in {"0","1","2"}, b \in Digits,
                            c \in {"0","1","2","3","4"}, d \in Digits }

\* the strings the tests and the specification name, and malformed ones
FiscalInputs ==
    { <<"1","2","-","3","1">>, <<"0","1","-","0","1">>, <<"0","2","-","3","0">>,
      <<"1","3","-","3","1">>, <<"0","0","-","1","0">>, <<"0","1","-","0","0">>,
      <<"0","1","-","3","2">>, <<"1","-","1">>, <<"1","2","-","3","1","\n">>,
      <<"1","2","-","3","1","\n","\n">>, <<" ","1","2","-","3","1">>,
      <<"\n","1","2","-","3","1">>, <<"1","2","-","3","1","x">>,
      <<"1","2","-","3","1"," ">>, <<"1","2","/","3","1">>,
      <<"1","2","-","3">>, <<"1","2","3","1">>, <<>> }

OfficerPool == {"President", "Secretary"}

\* [f"Officer {i}" for i in range(n)]
NumberedOfficers(n) == [i \in 1..n |-> "Officer " \o ToString(i - 1)]

OfficerInputs ==
    UNION { [1..n -> OfficerPool] : n \in 0..MaxTitleSeq }
    \cup { NumberedOfficers(n) : n \in 0..MaxOfficers }

BoardInputs == (-1..MaxBoard) \cup {99}

QuorumInputs == {-1, 0, 1, 51, 99, 100, 101}

MonthInputs == {"June", "January", "December", "june", "InvalidMonth", ""}

\* VALID_BYLAWS_DATA of the tests, with a short name and address
ValidBylawsData ==
    [company_name |-> <<"T","e","s","t"," ","C","o","r","p">>,
     principal_office |-> "123 Main St",
     fiscal_year_end |-> <<"1","2","-","3","1">>,
     board_size |-> 5,
     officer_titles |-> <<"Chief Executive Officer", "Secretary", "Treasurer">>,
     annual_meeting_month |-> "June",
     quorum_percentage |-> 51]

BylawsValues(field) ==
    CASE field = "company_name"         -> NameInputs
      [] field = "principal_office"     -> {"1 Main St", ""}
      [] field = "fiscal_year_end"      -> FiscalInputs
      [] field = "board_size"           -> BoardInputs
      [] field = "officer_titles"       -> OfficerInputs
      [] field = "annual_meeting_month" -> MonthInputs
      [] field = "quorum_percentage"    -> QuorumInputs

\* one key of a body changed: the key removed, or given the value v
ApplyEdit(data, field, drop, v) ==
    IF drop THEN Restrict(data, DOMAIN data \ {field})
    ELSE IF field \in DOMAIN data THEN [data EXCEPT ![field] = v]
    ELSE data

\* the fields of BylawsRequest in the order the class declares them
BylawsFieldOrder ==
    <<"company_name", "principal_office", "fiscal_year_end", "board_size",
      "officer_titles", "annual_meeting_month", "quorum_percentage">>

\* the values an edit of a key chooses from; a removal needs none, and a body
\* with a single changed key also takes fiscal_year_end from the grid
EditValues(field, drop, single) ==
    IF drop THEN {ValidBylawsData[field]}
    ELSE IF single /\ field = "fiscal_year_end"
    THEN FiscalInputs \cup FiscalGrid
    ELSE BylawsValues(field)

---------------------------------------------------------------------------
(* Render calls running at the same time.                                  *)

\* the threads that can each run one render call
Threads == {1, 2}

\* a thread that runs no call
NoCall ==
    [at |-> "free", generator |-> "", data |-> <<>>, k |-> 0,
     buffer |-> <<>>, nows |-> <<>>]

---------------------------------------------------------------------------
(* The state machine: one request is answered at a time.                   *)

Init ==
    /\ pc = "idle"
    /\ endpoint = ""
    /\ request = <<>>
    /\ record = <<>>
    /\ raised = "none"
    /\ nows = <<>>
    /\ response = NoResponse
    /\ clock = 1
    /\ calls = [c \in Threads |-> NoCall]

\* form_company is called on a body and returns.  The generator reads the
\* clock twice; the clock may advance between the two reads.
FormCompany ==
    /\ pc = "idle"
    /\ \E data \in FormInputs :
         LET model == CompanyFormation(data)
             renders == model.ok /\ SelectGenerator(model.value) \in Generators
         IN  \E fails \in IF renders THEN BOOLEAN ELSE {FALSE} :
             \E i, j \in IF renders /\ ~fails THEN 1..NumInstants ELSE {1} :
               /\ i <= j
               /\ request' = data
               /\ record' = model.value
               /\ raised' = IF ~model.ok THEN "ValidationError"
                            ELSE IF fails THEN "Exception" ELSE "none"
               /\ nows' = IF renders /\ ~fails THEN <<i, j>> ELSE <<>>
               /\ response' = form_company(data, fails, Instant(i), Instant(j))
    /\ endpoint' = "/form-company"
    /\ pc' = "done"
    /\ UNCHANGED <<clock, calls>>

\* generate_company_bylaws is called on a body (the valid body with up to two
\* keys changed) and returns, or the exception that leaves it is answered by
\* Flask
GenerateBylaws ==
    /\ pc = "idle"
    /\ \E i1, i2 \in 1..Len(BylawsFieldOrder), d1 \in BOOLEAN :
       \E d2 \in IF i1 = i2 THEN {d1} ELSE BOOLEAN :
       \E v1 \in EditValues(BylawsFieldOrder[i1], d1, i1 = i2) :
       \E v2 \in IF i1 = i2 THEN {v1}
                 ELSE EditValues(BylawsFieldOrder[i2], d2, FALSE) :
         LET data == ApplyEdit(ApplyEdit(ValidBylawsData,
                                         BylawsFieldOrder[i1], d1, v1),
                               BylawsFieldOrder[i2], d2, v2)
             model == BylawsRequest(data)
         IN  \E fails \in IF model.ok THEN BOOLEAN ELSE {FALSE} :
             \E debug \in IF ~model.ok \/ fails THEN BOOLEAN ELSE {FALSE} :
               /\ i1 <= i2
               /\ request' = data
               /\ record' = model.value
               /\ raised' = IF ~model.ok THEN "ValidationError"
                            ELSE IF fails THEN "Exception" ELSE "none"
               /\ response' = generate_company_bylaws(data, fails, debug)
    /\ nows' = <<>>
    /\ endpoint' = "/generate-bylaws"
    /\ pc' = "done"
    /\ UNCHANGED <<clock, calls>>

\* the response is sent; the server waits for the next request
Respond ==
    /\ pc = "done"
    /\ pc' = "idle"
    /\ endpoint' = ""
    /\ request' = <<>>
    /\ record' = <<>>
    /\ raised' = "none"
    /\ nows' = <<>>
    /\ response' = NoResponse
    /\ UNCHANGED <<clock, calls>>

Next == FormCompany \/ GenerateBylaws \/ Respond

Spec == Init /\ [][Next]_vars

---------------------------------------------------------------------------
(* Vocabulary of the properties.                                           *)

FormDone == pc = "done" /\ endpoint = "/form-company"

BylawsDone == pc = "done" /\ endpoint = "/generate-bylaws"

\* the model constructor accepted the body
Accepted == raised # "ValidationError"

IsPdf == response.mimetype = "application/pdf"

\* the charset rule of company_name, stated on the characters
NameWellFormed(v) == Len(v) >= 1 /\ \A i \in 1..Len(v) : v[i] \in NameClass

\* a code of the 56-entry set, in any letter case
IsStateCode(v) == \E code \in states : Str(upper(v)) = code

\* the other three fields of a /form-company body are present and well formed
FormRestValid ==
    /\ DOMAIN request = CompanyFormationFields
    /\ NameWellFormed(request.company_name)
    /\ request.company_type \in {"corporation", "LLC"}
    /\ request.incorporator_name # ""

---------------------------------------------------------------------------
(* C1 *)

\* C1: validating a CompanyFormation whose other fields are well formed
\* succeeds for each of the 56 codes in any letter case and stores the code
\* upper-cased, and fails for every code outside the set.
C1_StateValidated ==
    (FormDone /\ FormRestValid) =>
        IF IsStateCode(request.state_of_formation)
        THEN Accepted /\ record.state_of_formation = upper(request.state_of_formation)
        ELSE ~Accepted

---------------------------------------------------------------------------
(* C2 *)

SupportedPairs ==
    { <<"DE", "corporation">>, <<"DE", "LLC">>,
      <<"CA", "corporation">>, <<"CA", "LLC">> }

GeneratorOfPair(pair) ==
    CASE pair = <<"DE", "corporation">> -> "generate_delaware_articles"
      [] pair = <<"DE", "LLC">>         -> "generate_delaware_llc_certificate"
      [] pair = <<"CA", "corporation">> -> "generate_california_articles"
      [] pair = <<"CA", "LLC">>         -> "generate_california_llc_certificate"

\* C2: for a validated record whose rendering raises nothing, /form-company
\* answers with a PDF exactly when (state_of_formation, company_type) is one
\* of the four supported pairs, the PDF is the output of that pair's own
\* generator, and any other jurisdiction code gets status 400 with the
\* unsupported-jurisdiction message and no document.
C2_SupportedPairs ==
    (FormDone /\ raised = "none") =>
        LET pair == <<Str(record.state_of_formation), record.company_type>>
        IN  /\ IsPdf <=> pair \in SupportedPairs
            /\ pair \in SupportedPairs =>
                 /\ response.status = 200
                 /\ response.generator = GeneratorOfPair(pair)
                 /\ response.pdf = CallGenerator(GeneratorOfPair(pair), record,
                                                 Instant(nows[1]), Instant(nows[2]))
            /\ pair[1] \notin {"DE", "CA"} =>
                 /\ response.status = 400
                 /\ response.mimetype = "application/json"
                 /\ response.error = "Only Delaware and California entities are supported at this time"
                 /\ response.pdf = <<>>

\* a California LLC was rendered
C2_Witness ==
    /\ FormDone /\ raised = "none"
    /\ Str(record.state_of_formation) = "CA" /\ record.company_type = "LLC"
    /\ response.generator = "generate_california_llc_certificate"

---------------------------------------------------------------------------
(* C3 *)

\* C3: /generate-bylaws answers a body that fails validation with status 400
\* and a JSON error describing the failure, and produces no document.
C3_BylawsValidation400 ==
    (BylawsDone /\ ~Accepted) =>
        /\ response.status = 400
        /\ response.mimetype = "application/json"
        /\ response.invalid # {}
        /\ response.pdf = <<>>

---------------------------------------------------------------------------
(* C4 *)

\* C4: on both endpoints an exception raised after validation succeeded is
\* answered with a 5xx status and a body that carries nothing of the
\* exception.
C4_GenericServerError ==
    (pc = "done" /\ raised = "Exception") =>
        /\ response.status >= 500
        /\ response.error # RenderErrorText
        /\ response.detail = {}

---------------------------------------------------------------------------
(* C5 *)

\* the number of draws generate_bylaws makes before the officer list
HeadDraws == 15

\* C5: generate_bylaws draws exactly one line per officer title, in input
\* order, the i-th (0-based) as "- " + title at x = 70, y = 360 - 20*i, each
\* on its own y, directly after the "1. Officers." line (y = 380) and
\* directly before the three ARTICLE V lines, which all lie strictly below
\* the last officer line, or below y = 380 when there is no officer.
C5_OfficerLayout ==
    (BylawsDone /\ IsPdf) =>
        LET titles == record.officer_titles
            n == Len(titles)
            pdf == response.pdf
            lowest == IF n = 0 THEN pdf[HeadDraws].y ELSE pdf[HeadDraws + n].y
        IN  /\ Len(pdf) = HeadDraws + n + 3
            /\ pdf[HeadDraws].text = "1. Officers. The officers of the corporation shall be:"
            /\ pdf[HeadDraws].y = 380
            /\ \A i \in 1..n :
                 /\ pdf[HeadDraws + i].text = "- " \o titles[i]
                 /\ pdf[HeadDraws + i].x = 70
                 /\ pdf[HeadDraws + i].y = 360 - 20 * (i - 1)
            /\ \A i, j \in 1..n :
                 i # j => pdf[HeadDraws + i].y # pdf[HeadDraws + j].y
            /\ pdf[HeadDraws + n + 1].text = "ARTICLE V - FISCAL YEAR"
            /\ \A k \in 1..3 : pdf[HeadDraws + n + k].y < lowest
            /\ \A k \in 1..3, m \in 1..(HeadDraws + n) :
                 pdf[HeadDraws + n + k].y # pdf[m].y

\* bylaws with the twenty officers of the test were rendered
C5_Witness ==
    /\ BylawsDone /\ IsPdf
    /\ Len(record.officer_titles) = 20
    /\ response.pdf[HeadDraws + 20].text = "- Officer 19"

---------------------------------------------------------------------------
(* C6 *)

\* C6: every CompanyFormation and every BylawsRequest that passes validation
\* has a non-empty company_name made of the characters of
\* [A-Za-z0-9\s,.'&] only.
C6_CompanyNameCharset ==
    (pc = "done" /\ Accepted) => NameWellFormed(record.company_name)

---------------------------------------------------------------------------
(* C7 *)

DigitValue(c) ==
    CASE c = "0" -> 0 [] c = "1" -> 1 [] c = "2" -> 2 [] c = "3" -> 3
      [] c = "4" -> 4 [] c = "5" -> 5 [] c = "6" -> 6 [] c = "7" -> 7
      [] c = "8" -> 8 [] c = "9" -> 9

\* v is MM-DD with MM in 01..12 and DD in 01..31
IsMonthDay(v) ==
    /\ Len(v) = 5
    /\ v[3] = "-"
    /\ \A i \in {1, 2, 4, 5} : v[i] \in Digits
    /\ 10 * DigitValue(v[1]) + DigitValue(v[2]) \in 1..12
    /\ 10 * DigitValue(v[4]) + DigitValue(v[5]) \in 1..31

\* the body differs from the valid body at most in the fields of keep
BylawsRestValid(keep) ==
    /\ DOMAIN request = BylawsRequestFields
    /\ \A f \in BylawsRequestFields \ keep : request[f] = ValidBylawsData[f]

\* C7: a bylaws body that is valid in every other field is accepted exactly
\* when fiscal_year_end is MM-DD with MM in 01..12 and DD in 01..31, with no
\* character before or after.
C7_FiscalYearEndExact ==
    (BylawsDone /\ BylawsRestValid({"fiscal_year_end"})) =>
        (Accepted <=> IsMonthDay(request.fiscal_year_end))

---------------------------------------------------------------------------
(* C8 *)

\* C8: a BylawsRequest is accepted only if board_size >= 1 and
\* 0 <= quorum_percentage <= 100, and a body that is valid in every other
\* field is accepted whenever both ranges hold.
C8_IntegerRanges ==
    (BylawsDone /\ {"board_size", "quorum_percentage"} \subseteq DOMAIN request) =>
        LET inRange == /\ request.board_size >= 1
                       /\ request.quorum_percentage >= 0
                       /\ request.quorum_percentage <= 100
        IN  /\ Accepted => inRange
            /\ BylawsRestValid({"board_size", "quorum_percentage"}) =>
                 (Accepted <=> inRange)

\* the largest values of the tests were accepted together
C8_Witness ==
    /\ BylawsDone /\ Accepted
    /\ request.board_size = 99
    /\ request.quorum_percentage = 100
    /\ record.board_size = 99

---------------------------------------------------------------------------
(* C9 *)

\* C9: a CompanyFormation that passes validation has a non-empty
\* incorporator_name, and no formation document ends in an empty
\* incorporator line.
C9_IncorporatorNonEmpty ==
    (FormDone /\ Accepted) =>
        /\ record.incorporator_name # ""
        /\ IsPdf => response.pdf[Len(response.pdf)].text # ""

---------------------------------------------------------------------------
(* C10 *)

CentredDraws(pdf) == { i \in 1..Len(pdf) : pdf[i].op = "drawCentredString" }

\* C10 as stated: every centred draw of every document is anchored at the
\* horizontal midpoint of the page, x = 306.
C10_CentredAtMidpoint ==
    (pc = "done" /\ IsPdf) =>
        \A i \in CentredDraws(response.pdf) :
            /\ response.pdf[i].x = 306
            /\ 2 * response.pdf[i].x = letter.width

\* C10 amended: the title line of each formation document and the two title
\* lines of the bylaws are the centred draws, and each is anchored at
\* x = 300, six points left of the midpoint of the 612pt-wide page.
C10_CentredAt300 ==
    (pc = "done" /\ IsPdf) =>
        /\ CentredDraws(response.pdf) =
             IF endpoint = "/generate-bylaws" THEN {1, 2} ELSE {1}
        /\ \A i \in CentredDraws(response.pdf) :
             /\ response.pdf[i].x = 300
             /\ 2 * (response.pdf[i].x + 6) = letter.width

\* bylaws were rendered: two centred title lines are on the page
C10_Witness ==
    /\ BylawsDone /\ IsPdf
    /\ response.pdf[1].text = "CORPORATE BYLAWS OF"
    /\ response.pdf[2].op = "drawCentredString"

---------------------------------------------------------------------------
(* C11 *)

\* C11: the document generate_delaware_articles draws for a DE corporation
\* holds the heading, the markers FIRST, SECOND, THIRD and FOURTH, the
\* witness clause and the incorporator line in that order, every draw
\* strictly lower on the page than the one before, with the company name
\* and the incorporator name of the request drawn unmodified.
C11_DelawareArticles ==
    (FormDone /\ IsPdf /\ response.generator = "generate_delaware_articles") =>
        LET pdf == response.pdf
        IN  /\ Len(pdf) = 14
            /\ pdf[1].text = "CERTIFICATE OF INCORPORATION"
            /\ pdf[2].text = "FIRST: The name of this corporation is:"
            /\ pdf[3].text = Str(request.company_name)
            /\ pdf[4].text = "SECOND: Its registered office in the State of Delaware is located at:"
            /\ pdf[6].text = "THIRD: The purpose of the corporation is to engage in any lawful act or activity for"
            /\ pdf[8].text = "FOURTH: The total number of shares of stock which this corporation is authorized"
            /\ pdf[10].text = "IN WITNESS WHEREOF, the undersigned, being the incorporator hereinbefore named,"
            /\ pdf[13].text = "Incorporator:"
            /\ pdf[14].text = request.incorporator_name
            /\ \A i, j \in 1..Len(pdf) : i < j => pdf[i].y > pdf[j].y

\* the record of the specification's example was rendered
C11_Witness ==
    /\ FormDone /\ IsPdf
    /\ response.generator = "generate_delaware_articles"
    /\ Str(request.company_name) = "Acme Corp, Inc."
    /\ request.incorporator_name = "John Smith"

---------------------------------------------------------------------------
(* C12 *)

\* C12: generate_bylaws answers every accepted record whose rendering raises
\* nothing with a one-page document; all its draws have y >= 0 exactly when
\* there are at most 15 officer titles; with 20 titles the last officer line
\* is at y = -20 and the ARTICLE V lines are at y = -60, -80 and -100.
C12_NoPagination ==
    (BylawsDone /\ Accepted /\ raised = "none") =>
        LET pdf == response.pdf
            n == Len(record.officer_titles)
        IN  /\ IsPdf
            /\ PageCount(pdf) = 1
            /\ (\A i \in 1..Len(pdf) : pdf[i].y >= 0) <=> n <= 15
            /\ n = 20 =>
                 /\ pdf[HeadDraws + 20].y = -20
                 /\ pdf[HeadDraws + 21].y = -60
                 /\ pdf[HeadDraws + 22].y = -80
                 /\ pdf[HeadDraws + 23].y = -100

\* sixteen officers: the first list whose ARTICLE V leaves the page
C12_Witness ==
    /\ BylawsDone /\ IsPdf
    /\ Len(record.officer_titles) = 16
    /\ response.pdf[Len(response.pdf)].y = -20

---------------------------------------------------------------------------
(* C14 *)

\* C14: the day and the month-and-year printed in the witness clause of a
\* formation document are those of one instant between the two clock reads
\* of its rendering.
C14_OneInstant ==
    (FormDone /\ IsPdf) =>
        \E i \in nows[1]..nows[2] :
            LET one == CallGenerator(response.generator, record,
                                     Instant(i), Instant(i))
                d == DayLine(response.generator)
                m == MonthLine(response.generator)
            IN  /\ response.pdf[d].text = one[d].text
                /\ response.pdf[m].text = one[m].text

---------------------------------------------------------------------------
(* The generators step by step: one canvas call at a time, two threads.    *)

\* validated records the concurrent calls render
FormationRecords ==
    { [company_name |-> <<"A","c","m","e">>, state_of_formation |-> <<"D","E">>,
       company_type |-> "corporation", incorporator_name |-> "John Smith"],
      [company_name |-> <<"S","&","S">>, state_of_formation |-> <<"D","E">>,
       company_type |-> "LLC", incorporator_name |-> "Jane Doe"],
      [company_name |-> <<"T","e","c","h">>, state_of_formation |-> <<"C","A">>,
       company_type |-> "corporation", incorporator_name |-> "Michael Johnson"],
      [company_name |-> <<"C","a","l">>, state_of_formation |-> <<"C","A">>,
       company_type |-> "LLC", incorporator_name |-> "Emily Chen"] }

BylawsRecords ==
    { [ValidBylawsData EXCEPT !.officer_titles = t] :
        t \in { <<>>, <<"President", "Secretary">> } }

\* the draws a call makes when its two clock reads return now1 and now2
DrawsOf(generator, data, now1, now2) ==
    IF generator = "generate_bylaws" THEN generate_bylaws(data)
    ELSE CallGenerator(generator, data, now1, now2)

\* CanvasOf with one canvas created at module level and used by every call
CanvasOf_Shared(c) == 1

\* the canvas the draws of thread c go to: the one its own call created
\* (buffer = BytesIO(); c = canvas.Canvas(buffer, ...), local to the call)
CanvasOf(c) == c

\* a generator is entered: it creates its buffer and its canvas
StartRender(c) ==
    /\ calls[c].at = "free"
    /\ \/ \E data \in FormationRecords :
            calls' = [calls EXCEPT ![c] =
                        [NoCall EXCEPT !.at = "running",
                                       !.generator = SelectGenerator(data),
                                       !.data = data]]
       \/ \E data \in BylawsRecords :
            calls' = [calls EXCEPT ![c] =
                        [NoCall EXCEPT !.at = "running",
                                       !.generator = "generate_bylaws",
                                       !.data = data]]
    /\ UNCHANGED <<pc, endpoint, request, record, raised, nows, response, clock>>

\* the next draw of thread c: the line is built from the call's record and,
\* for the two date lines, from the clock as it is now, and is written to the
\* call's canvas
RenderStep(c) ==
    LET call == calls[c]
        k == call.k + 1
        now == Instant(clock)
        reads == /\ call.generator \in Generators
                 /\ k \in {DayLine(call.generator), MonthLine(call.generator)}
        line == DrawsOf(call.generator, call.data, now, now)[k]
    IN  /\ call.at = "running"
        /\ k <= Len(DrawsOf(call.generator, call.data, now, now))
        /\ calls' = [calls EXCEPT
                        ![CanvasOf(c)].buffer = Append(@, line),
                        ![c].k = k,
                        ![c].nows = IF reads THEN Append(@, clock) ELSE @]
        /\ UNCHANGED <<pc, endpoint, request, record, raised, nows, response, clock>>

\* c.save(); buffer.seek(0); return buffer
ReturnBuffer(c) ==
    LET call == calls[c]
    IN  /\ call.at = "running"
        /\ call.k = Len(DrawsOf(call.generator, call.data,
                                Instant(clock), Instant(clock)))
        /\ calls' = [calls EXCEPT ![c].at = "returned"]
        /\ UNCHANGED <<pc, endpoint, request, record, raised, nows, response, clock>>

\* the system clock moves on
Tick ==
    /\ clock < NumInstants
    /\ clock' = clock + 1
    /\ UNCHANGED <<pc, endpoint, request, record, raised, nows, response, calls>>

NextRender ==
    \/ \E c \in Threads : StartRender(c)
    \/ \E c \in Threads : RenderStep(c)
    \/ \E c \in Threads : ReturnBuffer(c)
    \/ Tick

SpecRender == Init /\ [][NextRender]_vars

---------------------------------------------------------------------------
(* C13 *)

\* the draws the call of thread c makes when it runs alone on the same
\* record with the same clock readings
Alone(c) ==
    LET call == calls[c]
    IN  IF call.generator \in Generators
        THEN CallGenerator(call.generator, call.data,
                           Instant(call.nows[1]), Instant(call.nows[2]))
        ELSE generate_bylaws(call.data)

\* C13: whatever the interleaving of the draws of two render calls, the
\* buffer a call returns holds exactly the draws the call makes when it runs
\* alone on the same record with the same clock readings.
C13_NoInterference ==
    \A c \in Threads : calls[c].at = "returned" => calls[c].buffer = Alone(c)

\* both calls returned, and both clock reads of thread 2 fell strictly
\* between the two clock reads of thread 1
C13_Witness ==
    /\ calls[1].at = "returned" /\ calls[2].at = "returned"
    /\ calls[1].generator = "generate_delaware_articles"
    /\ calls[2].generator = "generate_california_llc_certificate"
    /\ calls[1].nows = <<1, 3>>
    /\ calls[2].nows = <<2, 2>>

====
